---- MODULE Spec2Model ----
(***************************************************************************)
(* Model of the atto command line wallet (cmd/atto/main.go).               *)
(*                                                                         *)
(* One process invocation is a sequential program: init() checks the      *)
(* command line, main() dispatches to one of printNewSeed, printAddress,  *)
(* printBalance, changeRepresentative and sendFunds.  The model follows   *)
(* the program counter through those functions; every call that can       *)
(* return an error is a step that either succeeds or fails.  The remote   *)
(* node is the variable ledger.                                           *)
(*                                                                         *)
(* Strings of decimal digits (balances, amounts) are sequences over       *)
(* 0..9; the value NonDigit stands for any character that is not a digit. *)
(***************************************************************************)
EXTENDS Integers, Sequences, FiniteSets, TLC

\* ------------------------------------------------------------------------
\* Bounds of the model
\* ------------------------------------------------------------------------
MaxPending == 3

NonDigit == 10

\* Amount strings the node may report for a pending transfer: "1", "02"
\* (leading zero) and "x" (not a number).
PendingAmounts == { <<1>>, <<0, 2>>, <<NonDigit>> }

\* Balances (raw) an opened account may have at the start.
StartBalances == { 0, 3 }

\* Raw amounts given to the send subcommand.
SendAmounts == { 1, 9 }

\* Representatives given to the representative subcommand.
Representatives == { 2 }

\* Width of the integers, scaled down: uint32 has Uint32Modulus values (2^32
\* in the program), uint has UintModulus values (2^64 on a 64-bit build).
Uint32Modulus == 4
UintModulus == 16

\* Numbers given with -a: the default, the largest index of the documented
\* range, the first number above it, and a number flag.Parse cannot store
\* in a uint.
AccountIndexFlags == { 0, Uint32Modulus - 1, Uint32Modulus, UintModulus }

\* uint32(x) for a uint x
uint32(x) == x % Uint32Modulus

\* No private key derived yet.
NoKey == -1

\* ------------------------------------------------------------------------
\* Pure helpers
\* ------------------------------------------------------------------------
IsDigit(c) == c \in 0..9

RECURSIVE DigitsValue(_)
DigitsValue(s) ==
    IF Len(s) = 0 THEN 0
    ELSE 10 * DigitsValue(SubSeq(s, 1, Len(s) - 1)) + s[Len(s)]

\* big.NewInt(0).SetString(s, 10): ok is false for the empty string and for
\* any string with a character that is not a digit.
SetStringOk(s) == Len(s) >= 1 /\ \A i \in 1..Len(s) : IsDigit(s[i])

SetString(s) == DigitsValue(s)

\* (*big.Int).String(): decimal digits, no leading zeros.
RECURSIVE IntString(_)
IntString(n) ==
    IF n < 10 THEN <<n>> ELSE Append(IntString(n \div 10), n % 10)

\* Scaled-down number of raw units per displayed unit.
RawPerXNO == 10

\* rawToXNO: exact decimal display of a raw amount.
rawToXNO(raw) == [whole |-> raw \div RawPerXNO, frac |-> raw % RawPerXNO]

\* The all-zero hash used as Previous of an account's first block.
ZeroHash == << >>

\* Hash of a block: determined by its predecessor and its link, and free of
\* collisions.
BlockHash(previous, link) == Append(previous, link)

defaultRepresentative == 1

NoBlock ==
    [SubType |-> "none", Previous |-> ZeroHash, Representative |-> 0,
     Balance |-> << >>, Link |-> 0, Hash |-> ZeroHash,
     Signature |-> FALSE, Work |-> FALSE]

\* The zero value of atto.AccountInfo.
ZeroInfo == [Balance |-> << >>, Frontier |-> ZeroHash, Representative |-> 0]

\* Link values of change and send blocks (receive blocks link to the hash
\* of the pending transfer, a number in 1..MaxPending).
ChangeLink == 100
SendLink == 200

VARIABLES
    arg0,          \* first letter of flag.Arg(0); "none" if absent, "" if empty
    nargs,         \* flag.NArg()
    yFlag,         \* -y
    vFlag,         \* -v
    accountIndexFlag, \* the number given with -a
    privateKey,    \* index the private key was derived with, else NoKey
    pc,            \* position in the program
    firstReceive,  \* printBalance: firstReceive
    notFound,      \* the account query returned ErrAccountNotFound
    startBalance,  \* raw balance printBalance starts from
    info,          \* the current atto.AccountInfo
    pendings,      \* printBalance: the result of FetchPending
    idx,           \* printBalance: index of the range loop
    block,         \* the block under construction
    submitted,     \* blocks accepted by block.Submit in this run, in order
    built,         \* blocks constructed in this run, in order
    calls,         \* calls made to the atto library that concern the ledger
    stdout,        \* lines written to os.Stdout
    stderr,        \* texts written to os.Stderr
    exitCode,      \* -1 while running, else the exit code of the process
    err,           \* the step that failed, "none" if none did
    confirmReads,  \* reads from the confirmation channel
    confirmation,  \* "unasked", or the answer read: "yes" or "no"
    ledger         \* the account as the remote node holds it; chain is the
                   \* sequence of the blocks it has accepted

vars == <<arg0, nargs, yFlag, vFlag, accountIndexFlag, privateKey, pc, firstReceive, notFound, startBalance,
          info, pendings, idx, block, submitted, built, calls, stdout, stderr,
          exitCode, err, confirmReads, confirmation, ledger>>

cmdLine == <<arg0, nargs, yFlag, vFlag, accountIndexFlag>>
locals == <<firstReceive, notFound, startBalance, info, pendings, idx, block>>

\* ------------------------------------------------------------------------
\* Initial states: a command line and a state of the remote ledger
\* ------------------------------------------------------------------------
Arg0s == { "", "n", "a", "b", "r", "s", "x" }

PendingLists ==
    UNION { { [i \in 1..n |-> [Amount |-> f[i], Source |-> 10 + i, Hash |-> i]]
              : f \in [1..n -> PendingAmounts] } : n \in 0..MaxPending }

LedgerAccounts ==
    { [opened |-> FALSE, balance |-> 0, frontier |-> ZeroHash,
       representative |-> 0] }
    \cup
    { [opened |-> TRUE, balance |-> b, frontier |-> <<0>>,
       representative |-> defaultRepresentative] : b \in StartBalances }

Ledgers ==
    { [opened |-> a.opened, balance |-> a.balance, frontier |-> a.frontier,
       representative |-> a.representative, pending |-> p,
       chain |-> << >>]
      : a \in LedgerAccounts, p \in PendingLists }

Line(t) == [txt |-> t, amount |-> rawToXNO(0), source |-> 0]

Init ==
    /\ nargs \in 0..3
    /\ arg0 \in (IF nargs = 0 THEN { "none" } ELSE Arg0s)
    /\ yFlag \in BOOLEAN
    /\ vFlag \in BOOLEAN
    /\ accountIndexFlag \in AccountIndexFlags
    /\ privateKey = NoKey
    /\ ledger \in Ledgers
    /\ pc = "init"
    /\ firstReceive = FALSE
    /\ notFound = FALSE
    /\ startBalance = 0
    /\ info = ZeroInfo
    /\ pendings = << >>
    /\ idx = 0
    /\ block = NoBlock
    /\ submitted = << >>
    /\ built = << >>
    /\ calls = << >>
    /\ stdout = << >>
    /\ stderr = << >>
    /\ exitCode = -1
    /\ err = "none"
    /\ confirmReads = 0
    /\ confirmation = "unasked"

\* ------------------------------------------------------------------------
\* Ways a step ends
\* ------------------------------------------------------------------------
\* os.Exit(code) without an error message of main.
Exit(code) ==
    /\ pc' = "exit"
    /\ exitCode' = code

\* A function returns err to main, which prints it and exits with 2.
Fail(e) ==
    /\ pc' = "exit"
    /\ exitCode' = 2
    /\ err' = e
    /\ stderr' = Append(stderr, Line("Error"))

\* ------------------------------------------------------------------------
\* func init()
\* ------------------------------------------------------------------------
ArgsOk ==
    CASE arg0 \in { "n", "a", "b" } -> nargs = 1
      [] arg0 = "r" -> nargs = 2
      [] arg0 = "s" -> nargs = 3
      [] OTHER -> FALSE

init ==
    /\ pc = "init"
    /\ IF accountIndexFlag >= UintModulus
       THEN \* flag.Parse: the value does not fit a uint; the flag package
            \* prints the usage and exits with 2
            /\ stderr' = Append(stderr, Line("usage"))
            /\ Exit(2)
            /\ err' = "flag"
            /\ UNCHANGED stdout
       ELSE IF vFlag
       THEN /\ stdout' = Append(stdout, Line("1.3.0"))
            /\ Exit(0)
            /\ UNCHANGED <<stderr, err>>
       ELSE IF nargs < 1
       THEN /\ stderr' = Append(stderr, Line("usage"))
            /\ Exit(1)
            /\ err' = "usage"
            /\ UNCHANGED stdout
       ELSE IF arg0 = ""
       THEN \* flag.Arg(0)[:1] on the empty string panics
            /\ stderr' = Append(stderr, Line("panic"))
            /\ Exit(2)
            /\ err' = "panic"
            /\ UNCHANGED stdout
       ELSE IF ~ArgsOk
       THEN /\ stderr' = Append(stderr, Line("usage"))
            /\ Exit(1)
            /\ err' = "usage"
            /\ UNCHANGED stdout
       ELSE /\ pc' = "main"
            /\ UNCHANGED <<stdout, stderr, exitCode, err>>
    /\ UNCHANGED <<cmdLine, privateKey, locals, submitted, built, calls, confirmReads,
                   confirmation, ledger>>

\* ------------------------------------------------------------------------
\* func main(): the switch
\* ------------------------------------------------------------------------
main ==
    /\ pc = "main"
    /\ pc' = (IF arg0 = "n" THEN "printNewSeed" ELSE "getSeed")
    /\ UNCHANGED <<cmdLine, privateKey, locals, submitted, built, calls, stdout, stderr,
                   exitCode, err, confirmReads, confirmation, ledger>>

\* func printNewSeed()
printNewSeed ==
    /\ pc = "printNewSeed"
    /\ \E ok \in BOOLEAN :
         IF ok
         THEN /\ stdout' = Append(stdout, Line("seed"))
              /\ Exit(0)
              /\ UNCHANGED <<stderr, err>>
         ELSE /\ Fail("GenerateSeed")
              /\ UNCHANGED stdout
    /\ UNCHANGED <<cmdLine, privateKey, locals, submitted, built, calls, confirmReads,
                   confirmation, ledger>>

\* The statement that follows statement p when p succeeds, from
\* account, err := atto.NewAccount(privateKey) up to the construction of
\* the block: sendFunds asks for confirmation before it queries the
\* account, printBalance queries the pending transfers after it.
\* A plausible slip: sendFunds queries the account first and asks then.
AfterQueryFirst(p) ==
    CASE p = "NewAccount" -> "FetchAccountInfo"
      [] p = "FetchAccountInfo" ->
            IF arg0 = "b" THEN "FetchPending"
            ELSE IF arg0 = "s" THEN "letUserVerifySend" ELSE "build"
      [] p = "letUserVerifySend" -> "build"

\* A plausible slip: the representative and send commands go through the
\* pending query like the balance command.
AfterAlwaysPending(p) ==
    CASE p = "NewAccount" ->
            IF arg0 = "s" THEN "letUserVerifySend" ELSE "FetchAccountInfo"
      [] p = "letUserVerifySend" -> "FetchAccountInfo"
      [] p = "FetchAccountInfo" -> "FetchPending"

After(p) ==
    CASE p = "NewAccount" ->
            IF arg0 = "s" THEN "letUserVerifySend" ELSE "FetchAccountInfo"
      [] p = "letUserVerifySend" -> "FetchAccountInfo"
      [] p = "FetchAccountInfo" ->
            IF arg0 = "b" THEN "FetchPending" ELSE "build"

\* seed, err := getSeed()  (first statement of the four seed commands)
getSeed ==
    /\ pc = "getSeed"
    /\ \E ok \in BOOLEAN :
         IF ok
         THEN /\ pc' = "NewPrivateKey"
              /\ UNCHANGED <<stderr, exitCode, err>>
         ELSE Fail("getSeed")
    /\ UNCHANGED <<cmdLine, privateKey, locals, submitted, built, calls, stdout,
                   confirmReads, confirmation, ledger>>

\* privateKey, err := atto.NewPrivateKey(seed, uint32(accountIndexFlag))
NewPrivateKey ==
    /\ pc = "NewPrivateKey"
    /\ \E ok \in BOOLEAN :
         IF ok
         THEN /\ privateKey' = uint32(accountIndexFlag)
              /\ pc' = "NewAccount"
              /\ UNCHANGED <<stderr, exitCode, err>>
         ELSE /\ Fail("NewPrivateKey")
              /\ UNCHANGED privateKey
    /\ UNCHANGED <<cmdLine, locals, submitted, built, calls, stdout,
                   confirmReads, confirmation, ledger>>

\* account, err := atto.NewAccount(privateKey); printAddress prints the
\* address and returns, the other commands go on.
NewAccount ==
    /\ pc = "NewAccount"
    /\ \E ok \in BOOLEAN :
         IF ~ok
         THEN /\ Fail("NewAccount")
              /\ UNCHANGED stdout
         ELSE IF arg0 = "a"
         THEN /\ stdout' = Append(stdout, Line("address"))
              /\ Exit(0)
              /\ UNCHANGED <<stderr, err>>
         ELSE /\ pc' = After("NewAccount")
              /\ UNCHANGED <<stdout, stderr, exitCode, err>>
    /\ UNCHANGED <<cmdLine, privateKey, locals, submitted, built, calls, confirmReads,
                   confirmation, ledger>>

\* ------------------------------------------------------------------------
\* sendFunds: the confirmation gate
\* ------------------------------------------------------------------------
\* A plausible slip: the answer is read whether or not -y was given.
letUserVerifySendAlwaysAsks ==
    /\ pc = "letUserVerifySend"
    /\ confirmReads' = confirmReads + 1
    /\ \E answer \in { "yes", "no" } :
         /\ confirmation' = answer
         /\ IF answer = "yes"
            THEN /\ pc' = After("letUserVerifySend")
                 /\ UNCHANGED <<stderr, exitCode>>
            ELSE /\ stderr' = Append(stderr, Line("Send aborted."))
                 /\ Exit(0)
    /\ UNCHANGED <<cmdLine, privateKey, locals, submitted, built, calls, stdout, err,
                   ledger>>

\* letUserVerifySend(amount, recipient): with -y nothing is read; otherwise
\* one answer is read from the confirmation channel and anything but an
\* affirmative answer ends the process cleanly.
letUserVerifySend ==
    /\ pc = "letUserVerifySend"
    /\ IF yFlag
       THEN /\ pc' = After("letUserVerifySend")
            /\ UNCHANGED <<confirmReads, confirmation, stderr, exitCode>>
       ELSE /\ confirmReads' = confirmReads + 1
            /\ \E answer \in { "yes", "no" } :
                 /\ confirmation' = answer
                 /\ IF answer = "yes"
                    THEN /\ pc' = After("letUserVerifySend")
                         /\ UNCHANGED <<stderr, exitCode>>
                    ELSE /\ stderr' = Append(stderr, Line("Send aborted."))
                         /\ Exit(0)
    /\ UNCHANGED <<cmdLine, privateKey, locals, submitted, built, calls, stdout, err,
                   ledger>>

\* ------------------------------------------------------------------------
\* The account query
\* ------------------------------------------------------------------------
\* What the node answers to account.FetchAccountInfo.
LedgerInfo(l) ==
    [Balance |-> IntString(l.balance), Frontier |-> l.frontier,
     Representative |-> l.representative]

\* A plausible slip: info.Balance is not set to "0" for an account that was
\* not found.
FetchAccountInfoNoZeroBalance ==
    /\ pc = "FetchAccountInfo"
    /\ calls' = Append(calls, "FetchAccountInfo")
    /\ \E transportOk \in BOOLEAN :
         IF ~transportOk
         THEN /\ Fail("FetchAccountInfo")
              /\ UNCHANGED <<firstReceive, notFound, startBalance, info>>
         ELSE IF ~ledger.opened
         THEN /\ notFound' = TRUE
              /\ UNCHANGED startBalance
              /\ IF arg0 = "b"
                 THEN /\ info' = ZeroInfo
                      /\ firstReceive' = TRUE
                      /\ pc' = After("FetchAccountInfo")
                      /\ UNCHANGED <<stderr, exitCode, err>>
                 ELSE /\ Fail("ErrAccountNotFound")
                      /\ UNCHANGED <<firstReceive, info>>
         ELSE /\ info' = LedgerInfo(ledger)
              /\ startBalance' = ledger.balance
              /\ pc' = After("FetchAccountInfo")
              /\ UNCHANGED <<firstReceive, notFound, stderr, exitCode, err>>
    /\ UNCHANGED <<cmdLine, privateKey, pendings, idx, block, submitted, built, stdout,
                   confirmReads, confirmation, ledger>>

\* A plausible slip: firstReceive is set whatever the query answered.
FetchAccountInfoAlwaysFirst ==
    /\ pc = "FetchAccountInfo"
    /\ calls' = Append(calls, "FetchAccountInfo")
    /\ \E transportOk \in BOOLEAN :
         IF ~transportOk
         THEN /\ Fail("FetchAccountInfo")
              /\ UNCHANGED <<firstReceive, notFound, startBalance, info>>
         ELSE IF ~ledger.opened
         THEN /\ notFound' = TRUE
              /\ UNCHANGED startBalance
              /\ IF arg0 = "b"
                 THEN /\ info' = [ZeroInfo EXCEPT !.Balance = <<0>>]
                      /\ firstReceive' = TRUE
                      /\ pc' = After("FetchAccountInfo")
                      /\ UNCHANGED <<stderr, exitCode, err>>
                 ELSE /\ Fail("ErrAccountNotFound")
                      /\ UNCHANGED <<firstReceive, info>>
         ELSE /\ info' = LedgerInfo(ledger)
              /\ startBalance' = ledger.balance
              /\ pc' = After("FetchAccountInfo")
              /\ firstReceive' = TRUE
              /\ UNCHANGED <<notFound, stderr, exitCode, err>>
    /\ UNCHANGED <<cmdLine, privateKey, pendings, idx, block, submitted, built, stdout,
                   confirmReads, confirmation, ledger>>

\* A plausible slip: printBalance returns ErrAccountNotFound like any other
\* error.
FetchAccountInfoNotFoundFatal ==
    /\ pc = "FetchAccountInfo"
    /\ calls' = Append(calls, "FetchAccountInfo")
    /\ \E transportOk \in BOOLEAN :
         IF ~transportOk
         THEN /\ Fail("FetchAccountInfo")
              /\ UNCHANGED <<firstReceive, notFound, startBalance, info>>
         ELSE IF ~ledger.opened
         THEN /\ notFound' = TRUE
              /\ UNCHANGED startBalance
              /\ IF FALSE
                 THEN /\ info' = [ZeroInfo EXCEPT !.Balance = <<0>>]
                      /\ firstReceive' = TRUE
                      /\ pc' = After("FetchAccountInfo")
                      /\ UNCHANGED <<stderr, exitCode, err>>
                 ELSE /\ Fail("ErrAccountNotFound")
                      /\ UNCHANGED <<firstReceive, info>>
         ELSE /\ info' = LedgerInfo(ledger)
              /\ startBalance' = ledger.balance
              /\ pc' = After("FetchAccountInfo")
              /\ UNCHANGED <<firstReceive, notFound, stderr, exitCode, err>>
    /\ UNCHANGED <<cmdLine, privateKey, pendings, idx, block, submitted, built, stdout,
                   confirmReads, confirmation, ledger>>

\* info, err := account.FetchAccountInfo(node) and the handling of err:
\* printBalance takes ErrAccountNotFound as "first receive",
\* changeRepresentative and sendFunds return every error.
FetchAccountInfo ==
    /\ pc = "FetchAccountInfo"
    /\ calls' = Append(calls, "FetchAccountInfo")
    /\ \E transportOk \in BOOLEAN :
         IF ~transportOk
         THEN /\ Fail("FetchAccountInfo")
              /\ UNCHANGED <<firstReceive, notFound, startBalance, info>>
         ELSE IF ~ledger.opened
         THEN /\ notFound' = TRUE
              /\ UNCHANGED startBalance
              /\ IF arg0 = "b"
                 THEN /\ info' = [ZeroInfo EXCEPT !.Balance = <<0>>]
                      /\ firstReceive' = TRUE
                      /\ pc' = After("FetchAccountInfo")
                      /\ UNCHANGED <<stderr, exitCode, err>>
                 ELSE /\ Fail("ErrAccountNotFound")
                      /\ UNCHANGED <<firstReceive, info>>
         ELSE /\ info' = LedgerInfo(ledger)
              /\ startBalance' = ledger.balance
              /\ pc' = After("FetchAccountInfo")
              /\ UNCHANGED <<firstReceive, notFound, stderr, exitCode, err>>
    /\ UNCHANGED <<cmdLine, privateKey, pendings, idx, block, submitted, built, stdout,
                   confirmReads, confirmation, ledger>>

\* pendings, err := account.FetchPending(node)
FetchPending ==
    /\ pc = "FetchPending"
    /\ calls' = Append(calls, "FetchPending")
    /\ \E ok \in BOOLEAN :
         IF ok
         THEN /\ pendings' = ledger.pending
              /\ idx' = 1
              /\ pc' = "range"
              /\ UNCHANGED <<stderr, exitCode, err>>
         ELSE /\ Fail("FetchPending")
              /\ UNCHANGED <<pendings, idx>>
    /\ UNCHANGED <<cmdLine, privateKey, firstReceive, notFound, startBalance, info, block,
                   submitted, built, stdout, confirmReads, confirmation,
                   ledger>>

\* ------------------------------------------------------------------------
\* printBalance: head of the loop over pendings, and the final print
\* ------------------------------------------------------------------------
ReceiveText(pending) ==
    [txt |-> "Creating receive block", 
     amount |-> rawToXNO(SetString(pending.Amount)),
     source |-> pending.Source]

\* A plausible slip: an amount that does not parse ends the loop (break)
\* instead of the function.
rangeBreaksOnBadAmount ==
    /\ pc = "range"
    /\ IF idx > Len(pendings) \/ ~SetStringOk(pendings[idx].Amount)
       THEN /\ pc' = "printBalance"
            /\ UNCHANGED <<stderr, exitCode, err>>
       ELSE /\ stderr' = Append(stderr, ReceiveText(pendings[idx]))
            /\ pc' = "build"
            /\ UNCHANGED <<exitCode, err>>
    /\ UNCHANGED <<cmdLine, privateKey, locals, submitted, built, calls,
                   stdout, confirmReads, confirmation, ledger>>

\* for _, pending := range pendings { amount, ok := SetString(...); print }
range ==
    /\ pc = "range"
    /\ IF idx > Len(pendings)
       THEN /\ pc' = "printBalance"
            /\ UNCHANGED <<stderr, exitCode, err>>
       ELSE IF ~SetStringOk(pendings[idx].Amount)
       THEN Fail("parse")
       ELSE /\ stderr' = Append(stderr, ReceiveText(pendings[idx]))
            /\ pc' = "build"
            /\ UNCHANGED <<exitCode, err>>
    /\ UNCHANGED <<cmdLine, privateKey, locals, submitted, built, calls, stdout,
                   confirmReads, confirmation, ledger>>

\* newBalance, ok := SetString(info.Balance); fmt.Println(rawToXNO(newBalance))
printBalance ==
    /\ pc = "printBalance"
    /\ IF SetStringOk(info.Balance)
       THEN /\ stdout' = Append(stdout, [Line("balance") EXCEPT
                                 !.amount = rawToXNO(SetString(info.Balance))])
            /\ Exit(0)
            /\ UNCHANGED <<stderr, err>>
       ELSE /\ Fail("parse")
            /\ UNCHANGED stdout
    /\ UNCHANGED <<cmdLine, privateKey, locals, submitted, built, calls, confirmReads,
                   confirmation, ledger>>

\* ------------------------------------------------------------------------
\* Block constructors of the library
\* ------------------------------------------------------------------------
NewBlock(subType, previous, representative, balance, link) ==
    [SubType |-> subType, Previous |-> previous,
     Representative |-> representative, Balance |-> balance, Link |-> link,
     Hash |-> BlockHash(previous, link), Signature |-> FALSE, Work |-> FALSE]

\* account.FirstReceive(pending, representative): the open block and the
\* AccountInfo the account has once the block is applied.
FirstReceive(pending, representative) ==
    LET b == NewBlock("open", ZeroHash, representative, pending.Amount,
                      pending.Hash)
    IN  [block |-> b,
         info |-> [Balance |-> b.Balance, Frontier |-> b.Hash,
                   Representative |-> representative]]

\* info.Receive(pending): a receive block chained to info.Frontier; info is
\* advanced to the state after the block.  Fails when a balance or an
\* amount does not parse.
Receive(i, pending) ==
    LET ok == SetStringOk(i.Balance) /\ SetStringOk(pending.Amount)
        b == NewBlock("receive", i.Frontier, i.Representative,
                      IntString(SetString(i.Balance)
                                + SetString(pending.Amount)),
                      pending.Hash)
    IN  [ok |-> ok, block |-> b,
         info |-> [i EXCEPT !.Balance = b.Balance, !.Frontier = b.Hash]]

\* info.Change(representative)
Change(i, representative) ==
    LET b == NewBlock("change", i.Frontier, representative, i.Balance,
                      ChangeLink)
    IN  [block |-> b,
         info |-> [i EXCEPT !.Frontier = b.Hash,
                            !.Representative = representative]]

\* info.Send(amount, recipient): fails when the balance does not cover the
\* amount.
Send(i, amount) ==
    LET ok == SetStringOk(i.Balance) /\ amount <= SetString(i.Balance)
        b == NewBlock("send", i.Frontier, i.Representative,
                      IF ok THEN IntString(SetString(i.Balance) - amount)
                            ELSE i.Balance,
                      SendLink)
    IN  [ok |-> ok, block |-> b,
         info |-> [i EXCEPT !.Balance = b.Balance, !.Frontier = b.Hash]]

\* ------------------------------------------------------------------------
\* Construction of a block in the three commands
\* ------------------------------------------------------------------------
\* printBalance, firstReceive is true:
\*   info, block, err = account.FirstReceive(pending, defaultRepresentative)
\*   firstReceive = false
\* A plausible slip: the flag is not cleared.
openAccountKeepsFlag ==
    LET r == FirstReceive(pendings[idx], defaultRepresentative) IN
    /\ calls' = Append(calls, "FirstReceive")
    /\ UNCHANGED firstReceive
    /\ \E ok \in BOOLEAN :
         IF ok
         THEN /\ info' = r.info
              /\ block' = r.block
              /\ built' = Append(built, r.block)
              /\ stderr' = Append(stderr, Line("opening account"))
              /\ pc' = "Sign"
              /\ UNCHANGED <<exitCode, err>>
         ELSE /\ info' \in { ZeroInfo, r.info }
              /\ pc' = "exit"
              /\ exitCode' = 2
              /\ err' = "build"
              /\ stderr' = stderr \o <<Line("opening account"), Line("Error")>>
              /\ UNCHANGED <<block, built>>

\* A plausible slip: the AccountInfo FirstReceive returns is dropped
\* (_, block, err = account.FirstReceive(...)).
openAccountDropsInfo ==
    LET r == FirstReceive(pendings[idx], defaultRepresentative) IN
    /\ calls' = Append(calls, "FirstReceive")
    /\ firstReceive' = FALSE
    /\ \E ok \in BOOLEAN :
         IF ok
         THEN /\ UNCHANGED info
              /\ block' = r.block
              /\ built' = Append(built, r.block)
              /\ stderr' = Append(stderr, Line("opening account"))
              /\ pc' = "Sign"
              /\ UNCHANGED <<exitCode, err>>
         ELSE /\ info' \in { ZeroInfo, r.info }
              /\ pc' = "exit"
              /\ exitCode' = 2
              /\ err' = "build"
              /\ stderr' = stderr \o <<Line("opening account"), Line("Error")>>
              /\ UNCHANGED <<block, built>>

openAccount ==
    LET r == FirstReceive(pendings[idx], defaultRepresentative) IN
    /\ calls' = Append(calls, "FirstReceive")
    /\ firstReceive' = FALSE
    /\ \E ok \in BOOLEAN :
         IF ok
         THEN /\ info' = r.info
              /\ block' = r.block
              /\ built' = Append(built, r.block)
              /\ stderr' = Append(stderr, Line("opening account"))
              /\ pc' = "Sign"
              /\ UNCHANGED <<exitCode, err>>
         ELSE /\ info' \in { ZeroInfo, r.info }
              /\ pc' = "exit"
              /\ exitCode' = 2
              /\ err' = "build"
              /\ stderr' = stderr \o <<Line("opening account"), Line("Error")>>
              /\ UNCHANGED <<block, built>>

\* printBalance, firstReceive is false: block, err = info.Receive(pending)
receivePending ==
    LET r == Receive(info, pendings[idx]) IN
    /\ calls' = Append(calls, "Receive")
    /\ UNCHANGED firstReceive
    /\ \E hashOk \in BOOLEAN :
         IF r.ok /\ hashOk
         THEN /\ info' = r.info
              /\ block' = r.block
              /\ built' = Append(built, r.block)
              /\ pc' = "Sign"
              /\ UNCHANGED <<stderr, exitCode, err>>
         ELSE /\ Fail("build")
              /\ UNCHANGED <<info, block, built>>

\* printBalance: if firstReceive { ... } else { ... }; if err != nil { return }
buildReceive ==
    /\ arg0 = "b"
    /\ IF firstReceive THEN openAccount ELSE receivePending

\* changeRepresentative: block, err := info.Change(representative)
buildChange ==
    /\ arg0 = "r"
    /\ calls' = Append(calls, "Change")
    /\ UNCHANGED firstReceive
    /\ \E representative \in Representatives, ok \in BOOLEAN :
         LET r == Change(info, representative) IN
         IF ok
         THEN /\ info' = r.info
              /\ block' = r.block
              /\ built' = Append(built, r.block)
              /\ stderr' = Append(stderr, Line("Creating change block"))
              /\ pc' = "Sign"
              /\ UNCHANGED <<exitCode, err>>
         ELSE /\ pc' = "exit"
              /\ exitCode' = 2
              /\ err' = "build"
              /\ stderr' = stderr \o <<Line("Creating change block"),
                                       Line("Error")>>
              /\ UNCHANGED <<info, block, built>>

\* sendFunds: block, err := info.Send(amount, recipient)
buildSend ==
    /\ arg0 = "s"
    /\ calls' = Append(calls, "Send")
    /\ UNCHANGED firstReceive
    /\ \E amount \in SendAmounts, valid \in BOOLEAN :
         LET r == Send(info, amount) IN
         IF r.ok /\ valid
         THEN /\ info' = r.info
              /\ block' = r.block
              /\ built' = Append(built, r.block)
              /\ stderr' = Append(stderr, Line("Creating send block"))
              /\ pc' = "Sign"
              /\ UNCHANGED <<exitCode, err>>
         ELSE /\ pc' = "exit"
              /\ exitCode' = 2
              /\ err' = "build"
              /\ stderr' = stderr \o <<Line("Creating send block"),
                                       Line("Error")>>
              /\ UNCHANGED <<info, block, built>>

build ==
    /\ pc = "build"
    /\ \/ buildReceive
       \/ buildChange
       \/ buildSend
    /\ UNCHANGED <<cmdLine, privateKey, notFound, startBalance, pendings, idx, submitted,
                   stdout, confirmReads, confirmation, ledger>>

\* ------------------------------------------------------------------------
\* Sign, FetchWork, Submit: the same three statements in all three commands
\* ------------------------------------------------------------------------
\* A plausible slip: the error of Sign is dropped and the unsigned block goes
\* on to FetchWork.
SignErrorDropped ==
    /\ pc = "Sign"
    /\ calls' = Append(calls, "Sign")
    /\ \E ok \in BOOLEAN :
         /\ block' = [block EXCEPT !.Signature = ok]
         /\ pc' = "FetchWork"
         /\ UNCHANGED <<stderr, exitCode, err>>
    /\ UNCHANGED <<cmdLine, privateKey, firstReceive, notFound, startBalance, info,
                   pendings, idx, submitted, built, stdout, confirmReads,
                   confirmation, ledger>>

\* if err = block.Sign(privateKey); err != nil { return err }
Sign ==
    /\ pc = "Sign"
    /\ calls' = Append(calls, "Sign")
    /\ \E ok \in BOOLEAN :
         IF ok
         THEN /\ block' = [block EXCEPT !.Signature = TRUE]
              /\ pc' = "FetchWork"
              /\ UNCHANGED <<stderr, exitCode, err>>
         ELSE /\ Fail("Sign")
              /\ UNCHANGED block
    /\ UNCHANGED <<cmdLine, privateKey, firstReceive, notFound, startBalance, info,
                   pendings, idx, submitted, built, stdout, confirmReads,
                   confirmation, ledger>>

\* A plausible slip: the error of FetchWork is noted but the function does
\* not return.
FetchWorkNoReturn ==
    /\ pc = "FetchWork"
    /\ calls' = Append(calls, "FetchWork")
    /\ \E ok \in BOOLEAN :
         IF ok
         THEN /\ block' = [block EXCEPT !.Work = TRUE]
              /\ pc' = "Submit"
              /\ UNCHANGED <<stderr, exitCode, err>>
         ELSE /\ err' = "FetchWork"
              /\ pc' = "Submit"
              /\ UNCHANGED <<block, stderr, exitCode>>
    /\ UNCHANGED <<cmdLine, privateKey, firstReceive, notFound, startBalance, info,
                   pendings, idx, submitted, built, stdout, confirmReads,
                   confirmation, ledger>>

\* if err = block.FetchWork(node); err != nil { return err }
FetchWork ==
    /\ pc = "FetchWork"
    /\ calls' = Append(calls, "FetchWork")
    /\ \E ok \in BOOLEAN :
         IF ok
         THEN /\ block' = [block EXCEPT !.Work = TRUE]
              /\ pc' = "Submit"
              /\ UNCHANGED <<stderr, exitCode, err>>
         ELSE /\ Fail("FetchWork")
              /\ UNCHANGED block
    /\ UNCHANGED <<cmdLine, privateKey, firstReceive, notFound, startBalance, info,
                   pendings, idx, submitted, built, stdout, confirmReads,
                   confirmation, ledger>>

\* The effect of an accepted block on the account at the node.
Process(l, b) ==
    [l EXCEPT
       !.opened = TRUE,
       !.balance = SetString(b.Balance),
       !.frontier = b.Hash,
       !.representative = b.Representative,
       !.chain = Append(l.chain, b),
       !.pending = IF b.SubType \in { "open", "receive" }
                   THEN SelectSeq(l.pending, LAMBDA p : p.Hash # b.Link)
                   ELSE l.pending]

\* A plausible slip: the error of Submit is dropped and the loop goes on to
\* the next pending transfer.
SubmitErrorDropped ==
    /\ pc = "Submit"
    /\ calls' = Append(calls, "Submit")
    /\ \E ok \in BOOLEAN :
         /\ IF ok
            THEN /\ ledger' = Process(ledger, block)
                 /\ submitted' = Append(submitted, block)
            ELSE UNCHANGED <<ledger, submitted>>
         /\ stderr' = Append(stderr, Line("done"))
         /\ IF arg0 = "b"
            THEN /\ idx' = idx + 1
                 /\ pc' = "range"
                 /\ UNCHANGED exitCode
            ELSE /\ Exit(0)
                 /\ UNCHANGED idx
         /\ UNCHANGED err
    /\ UNCHANGED <<cmdLine, privateKey, firstReceive, notFound, startBalance, info,
                   pendings, block, built, stdout, confirmReads,
                   confirmation>>

\* A plausible slip: a failed Submit is tried a second time.
SubmitRetriedOnce ==
    /\ pc = "Submit"
    /\ calls' = Append(calls, "Submit")
    /\ \E ok \in BOOLEAN :
         IF ok
         THEN /\ ledger' = Process(ledger, block)
              /\ submitted' = Append(submitted, block)
              /\ stderr' = Append(stderr, Line("done"))
              /\ IF arg0 = "b"
                 THEN /\ idx' = idx + 1
                      /\ pc' = "range"
                      /\ UNCHANGED exitCode
                 ELSE /\ Exit(0)
                      /\ UNCHANGED idx
              /\ UNCHANGED err
         ELSE IF calls[Len(calls)] # "Submit"
         THEN UNCHANGED <<pc, ledger, submitted, stderr, idx, exitCode, err>>
         ELSE /\ Fail("Submit")
              /\ UNCHANGED <<ledger, submitted, idx>>
    /\ UNCHANGED <<cmdLine, privateKey, firstReceive, notFound, startBalance,
                   info, pendings, block, built, stdout, confirmReads,
                   confirmation>>

\* A plausible slip: the pending transfers are queried again after every
\* block.
SubmitThenRefetch ==
    /\ pc = "Submit"
    /\ calls' = Append(calls, "Submit")
    /\ \E ok \in BOOLEAN :
         IF ok
         THEN /\ ledger' = Process(ledger, block)
              /\ submitted' = Append(submitted, block)
              /\ stderr' = Append(stderr, Line("done"))
              /\ IF arg0 = "b"
                 THEN /\ pc' = "FetchPending"
                      /\ UNCHANGED exitCode
                 ELSE Exit(0)
              /\ UNCHANGED <<idx, err>>
         ELSE /\ Fail("Submit")
              /\ UNCHANGED <<ledger, submitted, idx>>
    /\ UNCHANGED <<cmdLine, privateKey, firstReceive, notFound, startBalance,
                   info, pendings, block, built, stdout, confirmReads,
                   confirmation>>

\* A plausible slip: the loop does not move on to the next transfer.
SubmitNoAdvance ==
    /\ pc = "Submit"
    /\ calls' = Append(calls, "Submit")
    /\ \E ok \in BOOLEAN :
         IF ok
         THEN /\ ledger' = Process(ledger, block)
              /\ submitted' = Append(submitted, block)
              /\ stderr' = Append(stderr, Line("done"))
              /\ IF arg0 = "b"
                 THEN /\ pc' = "range"
                      /\ UNCHANGED exitCode
                 ELSE Exit(0)
              /\ UNCHANGED <<idx, err>>
         ELSE /\ Fail("Submit")
              /\ UNCHANGED <<ledger, submitted, idx>>
    /\ UNCHANGED <<cmdLine, privateKey, firstReceive, notFound, startBalance,
                   info, pendings, block, built, stdout, confirmReads,
                   confirmation>>

\* if err = block.Submit(node); err != nil { return err }
\* fmt.Fprintln(os.Stderr, "done"); then the next iteration or return nil
Submit ==
    /\ pc = "Submit"
    /\ calls' = Append(calls, "Submit")
    /\ \E ok \in BOOLEAN :
         IF ok
         THEN /\ ledger' = Process(ledger, block)
              /\ submitted' = Append(submitted, block)
              /\ stderr' = Append(stderr, Line("done"))
              /\ IF arg0 = "b"
                 THEN /\ idx' = idx + 1
                      /\ pc' = "range"
                      /\ UNCHANGED exitCode
                 ELSE /\ Exit(0)
                      /\ UNCHANGED idx
              /\ UNCHANGED err
         ELSE /\ Fail("Submit")
              /\ UNCHANGED <<ledger, submitted, idx>>
    /\ UNCHANGED <<cmdLine, privateKey, firstReceive, notFound, startBalance, info,
                   pendings, block, built, stdout, confirmReads,
                   confirmation>>

\* ------------------------------------------------------------------------
\* Specification
\* ------------------------------------------------------------------------
Next ==
    \/ init
    \/ main
    \/ printNewSeed
    \/ getSeed
    \/ NewPrivateKey
    \/ NewAccount
    \/ letUserVerifySend
    \/ FetchAccountInfo
    \/ FetchPending
    \/ range
    \/ build
    \/ Sign
    \/ FetchWork
    \/ Submit
    \/ printBalance

Spec == Init /\ [][Next]_vars

\* ------------------------------------------------------------------------
\* Properties
\* ------------------------------------------------------------------------
\* The balance command has ended without any error.
BalanceCompleted == arg0 = "b" /\ pc = "exit" /\ exitCode = 0 /\ err = "none"

\* submitted[i] claims the transfer pendings[i], for every i in 1..n.
ClaimsInOrder(n) ==
    /\ Len(submitted) = n
    /\ \A i \in 1..n : submitted[i].Link = pendings[i].Hash

\* C1: when the account query of the balance command reported "account not
\* found", the pending query returned N >= 1 transfers and no step of the
\* drain failed, exactly N blocks were submitted, the i-th claiming the
\* i-th pending transfer; the first is the open block (FirstReceive with
\* the default representative, no predecessor), the other N-1 are receive
\* blocks.
C1_UnopenedDrainSubmitsOpenThenReceives ==
    (BalanceCompleted /\ notFound /\ Len(pendings) >= 1) =>
        /\ ClaimsInOrder(Len(pendings))
        /\ submitted[1].SubType = "open"
        /\ submitted[1].Representative = defaultRepresentative
        /\ submitted[1].Previous = ZeroHash
        /\ \A i \in 2..Len(submitted) : submitted[i].SubType = "receive"

\* An unopened account with three pending transfers has been drained.
C1_Witness ==
    /\ BalanceCompleted
    /\ notFound
    /\ Len(pendings) = 3
    /\ Len(submitted) = 3
    /\ submitted[3].SubType = "receive"


\* The set of elements of a sequence.
Range(s) == { s[i] : i \in 1..Len(s) }

\* C2: if the proof-of-work fetch fails on the k-th pending transfer of a
\* drain (k = idx), the balance command has ended with exactly the k-1
\* blocks for the transfers 1..k-1 submitted, no submitted block claims one
\* of the transfers k..N (they are still pending at the node), and the
\* failed FetchWork is the last call made: none follows it.
C2_WorkFailureAtKLeavesKMinusOne ==
    (arg0 = "b" /\ err = "FetchWork") =>
        /\ pc = "exit"
        /\ exitCode = 2
        /\ idx \in 1..Len(pendings)
        /\ ClaimsInOrder(idx - 1)
        /\ \A j \in idx..Len(pendings) :
              /\ \A i \in 1..Len(submitted) :
                    submitted[i].Link # pendings[j].Hash
              /\ pendings[j] \in Range(ledger.pending)
        /\ calls[Len(calls)] = "FetchWork"
        /\ Cardinality({ i \in 1..Len(calls) : calls[i] = "FetchWork" }) = idx
        /\ Cardinality({ i \in 1..Len(calls) : calls[i] = "Submit" }) = idx - 1

\* The work fetch failed on the second of three pending transfers.
C2_Witness ==
    /\ arg0 = "b"
    /\ err = "FetchWork"
    /\ idx = 2
    /\ Len(pendings) = 3
    /\ Len(submitted) = 1


\* C3: in all three commands a block reaches Submit only signed and with
\* work: whenever the program is about to call Submit, and for every block
\* Submit accepted, the block is the last one constructed with both its
\* signature and its work attached, and every Submit call in the call log
\* directly follows a FetchWork call that directly follows a Sign call.
C3_SubmitOnlyAfterSignAndWork ==
    /\ pc = "Submit" =>
          /\ block.Signature /\ block.Work
          /\ Len(built) >= 1
          /\ block = [built[Len(built)] EXCEPT !.Signature = TRUE,
                                               !.Work = TRUE]
    /\ \A i \in 1..Len(submitted) :
          submitted[i].Signature /\ submitted[i].Work
    /\ \A i \in 1..Len(calls) :
          calls[i] = "Submit" =>
              i >= 3 /\ calls[i - 1] = "FetchWork" /\ calls[i - 2] = "Sign"

\* The representative command has submitted its block.
C3_Witness ==
    /\ arg0 = "r"
    /\ pc = "exit"
    /\ Len(submitted) = 1
    /\ submitted[1].SubType = "change"
    /\ submitted[1].Signature
    /\ submitted[1].Work


\* C4: in a drain the blocks are built and submitted strictly one after the
\* other: at most one constructed block is not yet submitted, the submitted
\* blocks are the constructed ones in order, every block after the first
\* names the hash of the block before it as its predecessor and carries the
\* balance of that block plus the amount it claims, and a block under
\* construction is chained to the frontier the node has at that moment.
C4_DrainIsSerialAndChained ==
    arg0 = "b" =>
        /\ Len(built) \in { Len(submitted), Len(submitted) + 1 }
        /\ Len(built) = Len(submitted) + 1 <=>
              pc \in { "Sign", "FetchWork", "Submit" }
              \/ (pc = "exit" /\ err \in { "Sign", "FetchWork", "Submit" })
        /\ \A i \in 1..Len(submitted) :
              submitted[i] = [built[i] EXCEPT !.Signature = TRUE,
                                              !.Work = TRUE]
        /\ \A i \in 1..Len(built) : built[i].Link = pendings[i].Hash
        /\ \A i \in 2..Len(built) :
              /\ built[i].Previous = built[i - 1].Hash
              /\ SetString(built[i].Balance) =
                    SetString(built[i - 1].Balance)
                    + SetString(pendings[i].Amount)
        /\ pc \in { "Sign", "FetchWork", "Submit" } =>
              /\ block.Previous = ledger.frontier
              /\ info.Frontier = block.Hash

\* The third block of a drain is under construction, two are submitted.
C4_Witness ==
    /\ arg0 = "b"
    /\ pc = "FetchWork"
    /\ Len(built) = 3
    /\ Len(submitted) = 2
    /\ block.Previous = submitted[2].Hash


RECURSIVE SumAmounts(_)
SumAmounts(ps) ==
    IF Len(ps) = 0 THEN 0
    ELSE SetString(ps[1].Amount) + SumAmounts(Tail(ps))

\* The pending query was answered and a block was submitted for every
\* transfer of its answer.
AllDrained == idx >= 1 /\ Len(submitted) = Len(pendings)

\* C5: when the balance command has drained every pending transfer of its
\* snapshot (also when the snapshot is empty and nothing was submitted), it
\* ends with exit code 0 having printed exactly one line, the display of
\* the starting balance (zero if the account was not found, else the
\* queried balance) plus the sum of the amounts of the snapshot.
C5_PrintsStartPlusSumOfPendings ==
    (arg0 = "b" /\ pc = "exit" /\ AllDrained) =>
        /\ exitCode = 0
        /\ stdout = << [txt |-> "balance",
                        amount |-> rawToXNO((IF notFound THEN 0
                                                         ELSE startBalance)
                                            + SumAmounts(pendings)),
                        source |-> 0] >>

\* An opened account with a balance and two pending transfers was drained.
C5_Witness ==
    /\ arg0 = "b"
    /\ pc = "exit"
    /\ AllDrained
    /\ ~notFound
    /\ startBalance = 3
    /\ Len(pendings) = 2
    /\ SumAmounts(pendings) = 3
    /\ Len(stdout) = 1


\* C6: when the account query of the balance command found the account,
\* no open block is ever constructed, and a drain of M pending transfers
\* that completes has submitted exactly M blocks, all of them receive
\* blocks, one per transfer in the order of the snapshot.
C6_OpenedDrainSubmitsOnlyReceives ==
    (arg0 = "b" /\ idx >= 1 /\ ~notFound) =>
        /\ \A i \in 1..Len(built) : built[i].SubType = "receive"
        /\ \A i \in 1..Len(submitted) : submitted[i].SubType = "receive"
        /\ BalanceCompleted => ClaimsInOrder(Len(pendings))

\* An opened account with three pending transfers has been drained.
C6_Witness ==
    /\ BalanceCompleted
    /\ ~notFound
    /\ Len(pendings) = 3
    /\ Len(submitted) = 3
    /\ submitted[1].SubType = "receive"
    /\ submitted[1].Previous = <<0>>


\* Positions in the call log of the calls that construct a block.
BuildCalls ==
    { i \in 1..Len(calls) :
        calls[i] \in { "FirstReceive", "Receive", "Change", "Send" } }

\* C7: in one run FirstReceive is called at most once, only by the balance
\* command after the account query reported "account not found", and
\* before any other block is constructed; so an open block can only be the
\* first block constructed, and every later block is a receive block.
C7_AtMostOneOpenAndItIsFirst ==
    /\ Cardinality({ i \in BuildCalls : calls[i] = "FirstReceive" }) <= 1
    /\ \A i \in BuildCalls :
          calls[i] = "FirstReceive" =>
              /\ arg0 = "b"
              /\ notFound
              /\ \A j \in BuildCalls : j >= i
    /\ \A i \in 1..Len(built) :
          /\ built[i].SubType = "open" => (i = 1 /\ notFound)
          /\ i >= 2 => built[i].SubType = "receive"

\* An open block was constructed, then a receive block.
C7_Witness ==
    /\ notFound
    /\ Len(built) >= 2
    /\ built[1].SubType = "open"
    /\ built[2].SubType = "receive"
    /\ Cardinality(BuildCalls) >= 2


\* C8 as stated: no command ends in failure because the account query
\* reported "account not found".
C8_NotFoundNeverSurfaced ==
    notFound => err # "ErrAccountNotFound"

\* C8, amended: only the balance command consumes "account not found" as
\* the signal of an unopened account (it goes on with firstReceive set and
\* a zero balance and never fails because of the reply); the
\* representative and send commands return it like any error: they end
\* with exit code 2 right after the query, without constructing a block.
C8_NotFoundConsumedOnlyByBalance ==
    notFound =>
        /\ arg0 \in { "b", "r", "s" }
        /\ arg0 = "b" =>
              /\ err # "ErrAccountNotFound"
              /\ firstReceive \/ "FirstReceive" \in Range(calls)
              /\ pc = "FetchPending" =>
                    (exitCode = -1 /\ info.Balance = <<0>>)
        /\ arg0 \in { "r", "s" } =>
              /\ pc = "exit"
              /\ exitCode = 2
              /\ err = "ErrAccountNotFound"
              /\ calls = << "FetchAccountInfo" >>
              /\ built = << >>

\* The representative command was answered "account not found" and failed.
C8_Witness ==
    /\ arg0 = "r"
    /\ notFound
    /\ exitCode = 2
    /\ err = "ErrAccountNotFound"


C10_ForceFlagSkipsConfirmation ==
    (arg0 = "s" /\ yFlag) =>
        /\ confirmReads = 0
        /\ confirmation = "unasked"
        /\ "Send aborted." \notin { stderr[i].txt : i \in 1..Len(stderr) }
        /\ (pc = "exit" /\ calls = << >>) =>
              (vFlag \/ err \in { "flag", "usage", "getSeed",
                                  "NewPrivateKey", "NewAccount" })
        /\ pc \in { "build", "Sign", "FetchWork", "Submit" } =>
              calls[1] = "FetchAccountInfo"

\* A forced send has submitted its block without a confirmation read.
C10_Witness ==
    /\ arg0 = "s"
    /\ yFlag
    /\ pc = "exit"
    /\ exitCode = 0
    /\ Len(submitted) = 1
    /\ submitted[1].SubType = "send"
    /\ confirmReads = 0


\* C11: the representative command never queries the pending transfers and
\* constructs no open or receive block; on an opened account it submits at
\* most one block, and when it ends without error it has submitted exactly
\* one, a change block whose predecessor is the frontier the account query
\* returned and whose balance is the queried balance; the pending transfers
\* at the node are left as they were.
C11_RepresentativeSubmitsOneChange ==
    arg0 = "r" =>
        /\ "FetchPending" \notin Range(calls)
        /\ "FirstReceive" \notin Range(calls)
        /\ "Receive" \notin Range(calls)
        /\ pendings = << >>
        /\ Len(submitted) <= 1
        /\ \A i \in 1..Len(built) :
              /\ built[i].SubType = "change"
              /\ built[i].Previous = <<0>>
              /\ built[i].Previous = IF Len(submitted) = 0
                                     THEN ledger.frontier
                                     ELSE ledger.chain[1].Previous
              /\ SetString(built[i].Balance) = startBalance
        /\ (pc = "exit" /\ exitCode = 0 /\ ~vFlag) =>
              /\ Len(submitted) = 1
              /\ submitted[1].SubType = "change"
              /\ ledger.chain = submitted
              /\ ledger.frontier = submitted[1].Hash
              /\ calls = << "FetchAccountInfo", "Change", "Sign",
                            "FetchWork", "Submit" >>

\* The representative command has changed the representative of an opened
\* account that has pending transfers.
C11_Witness ==
    /\ arg0 = "r"
    /\ pc = "exit"
    /\ exitCode = 0
    /\ Len(submitted) = 1
    /\ submitted[1].Previous = <<0>>
    /\ ledger.representative = 2
    /\ Len(ledger.pending) = 2


\* The steps whose failure is an operational error.
OperationalErrors ==
    { "GenerateSeed", "getSeed", "NewPrivateKey", "NewAccount",
      "FetchAccountInfo", "ErrAccountNotFound", "FetchPending", "parse",
      "build", "Sign", "FetchWork", "Submit" }

BuildNames == { "FirstReceive", "Receive", "Change", "Send" }

\* C12: a failed step ends the command there with exit code 2 and the error
\* on the diagnostic stream; the failed call is the last call made, so
\* nothing follows the first failure; and nothing is retried: in the call
\* log every Sign directly follows the construction of a block, every
\* FetchWork a Sign, every Submit a FetchWork, and a construction follows
\* only a query or a Submit, so each is attempted at most once per block.
C12_ErrorsAbortWithTwoAndNoRetry ==
    /\ err \in OperationalErrors =>
          /\ pc = "exit"
          /\ exitCode = 2
          /\ stderr[Len(stderr)] = Line("Error")
          /\ stdout = << >>
    /\ err \in { "FetchAccountInfo", "FetchPending", "Sign", "FetchWork",
                 "Submit" } =>
          calls[Len(calls)] = err
    /\ err = "ErrAccountNotFound" => calls[Len(calls)] = "FetchAccountInfo"
    /\ err = "build" => calls[Len(calls)] \in BuildNames
    /\ err \in { "GenerateSeed", "getSeed", "NewPrivateKey", "NewAccount" } =>
          calls = << >>
    /\ \A i \in 1..Len(calls) :
          /\ calls[i] = "Sign" => (i >= 2 /\ calls[i - 1] \in BuildNames)
          /\ calls[i] = "FetchWork" => (i >= 2 /\ calls[i - 1] = "Sign")
          /\ calls[i] = "Submit" => (i >= 2 /\ calls[i - 1] = "FetchWork")
          /\ calls[i] \in BuildNames =>
                (i >= 2 /\ calls[i - 1] \in { "FetchAccountInfo",
                                              "FetchPending", "Submit" })
    /\ Cardinality(BuildCalls) <= Len(built) + 1

\* A drain was aborted by a failed Submit on its second block.
C12_Witness ==
    /\ arg0 = "b"
    /\ err = "Submit"
    /\ exitCode = 2
    /\ Len(submitted) = 1
    /\ Len(built) = 2


\* ------------------------------------------------------------------------
\* The balance command run again
\* ------------------------------------------------------------------------
\* The user invokes the balance command again with the same command line once
\* the process has ended: a new process starts with nothing kept but what
\* the node holds.
rerun ==
    /\ pc = "exit"
    /\ arg0 = "b"
    /\ pc' = "init"
    /\ privateKey' = NoKey
    /\ firstReceive' = FALSE
    /\ notFound' = FALSE
    /\ startBalance' = 0
    /\ info' = ZeroInfo
    /\ pendings' = << >>
    /\ idx' = 0
    /\ block' = NoBlock
    /\ submitted' = << >>
    /\ built' = << >>
    /\ calls' = << >>
    /\ stdout' = << >>
    /\ stderr' = << >>
    /\ exitCode' = -1
    /\ err' = "none"
    /\ confirmReads' = 0
    /\ confirmation' = "unasked"
    /\ UNCHANGED <<cmdLine, ledger>>

NextResume ==
    \/ Next
    \/ rerun

SpecResume == Init /\ [][NextResume]_vars

\* The blocks the node accepted in earlier runs.
Earlier == SubSeq(ledger.chain, 1, Len(ledger.chain) - Len(submitted))

\* C13: over any number of balance runs, the blocks the node has accepted
\* are the blocks of earlier runs followed by the blocks submitted in this
\* run; the snapshot of a run holds no transfer an earlier run claimed;
\* the i-th accepted block claims the i-th transfer that was pending at
\* the start, so no transfer is claimed twice; only the first accepted
\* block can be an open block; and a run that completes has submitted a
\* block for exactly the transfers that were left, leaving none pending.
C13_RerunContinuesWhereItStopped ==
    arg0 = "b" =>
        /\ Len(submitted) <= Len(ledger.chain)
        /\ ledger.chain = Earlier \o submitted
        /\ \A i \in 1..Len(Earlier), j \in 1..Len(pendings) :
              Earlier[i].Link # pendings[j].Hash
        /\ \A i \in 1..Len(ledger.chain) :
              /\ ledger.chain[i].Link = i
              /\ ledger.chain[i].SubType = "open" => i = 1
              /\ i >= 2 => ledger.chain[i].Previous = ledger.chain[i - 1].Hash
        /\ (idx >= 1 /\ Len(Earlier) >= 1) =>
              /\ ~notFound
              /\ \A i \in 1..Len(built) : built[i].SubType = "receive"
        /\ (BalanceCompleted /\ idx >= 1) =>
              /\ ClaimsInOrder(Len(pendings))
              /\ ledger.pending = << >>

\* A run that opened the account and was then aborted has been followed by
\* a run that completed with the two transfers that were left.
C13_Witness ==
    /\ BalanceCompleted
    /\ Len(Earlier) = 1
    /\ Earlier[1].SubType = "open"
    /\ Len(submitted) = 2
    /\ submitted[1].SubType = "receive"
    /\ submitted[1].Link = 2


\* C14: a number given with -a that lies outside the documented range of
\* the account index (0 to Uint32Modulus - 1) is rejected: no private key
\* is ever derived in such a run, in particular not the key of the index
\* reduced modulo Uint32Modulus, and a command that uses the index does not
\* end with success.
C14_IndexOutOfRangeRejected ==
    accountIndexFlag >= Uint32Modulus =>
        /\ privateKey = NoKey
        /\ (pc = "exit" /\ ~vFlag /\ arg0 \in { "a", "b", "r", "s" }) =>
              exitCode # 0


\* The command line is a usage error: the flags were parsed, -v was not
\* given, and there is no command, or a command that is not recognised, or
\* a number of arguments that does not fit the command.
UsageError ==
    /\ accountIndexFlag < UintModulus
    /\ ~vFlag
    /\ nargs = 0 \/ ~ArgsOk

\* C15: a usage error ends the process in init with exit code 1: the
\* program never gets to main, so the seed is not read, no key is derived
\* and no call concerning the ledger is made.
C15_UsageErrorExitsOneBeforeAnything ==
    UsageError =>
        /\ pc \in { "init", "exit" }
        /\ pc = "exit" => exitCode = 1
        /\ privateKey = NoKey
        /\ calls = << >>


\* C16 as stated: during a drain the current AccountInfo changes only in
\* the step in which Submit succeeds; a step of construction, Sign or
\* FetchWork, or a failing step, leaves it as it was.
C16_InfoReplacedOnlyAfterSubmit ==
    [][(arg0 = "b" /\ idx >= 1 /\ info' # info) =>
          (pc = "Submit" /\ Len(submitted') = Len(submitted) + 1)]_vars

\* C16, amended: during a drain the current AccountInfo is replaced by the
\* post-state of a block when the block is constructed: while the block is
\* signed, given work and submitted, info already holds its hash as
\* frontier and its balance, ahead of the node; a successful Submit leaves
\* info as it is, now equal to what the node holds; and when Sign,
\* FetchWork or Submit fails, the run ends with info advanced to the block
\* that was not applied, and nothing is printed.
C16_InfoReplacedAtConstruction ==
    arg0 = "b" =>
        /\ pc \in { "Sign", "FetchWork", "Submit" } =>
              /\ info.Frontier = block.Hash
              /\ info.Balance = block.Balance
              /\ info.Frontier # ledger.frontier
        /\ (pc = "range" /\ Len(submitted) >= 1) =>
              /\ info.Frontier = submitted[Len(submitted)].Hash
              /\ info.Frontier = ledger.frontier
              /\ SetString(info.Balance) = ledger.balance
        /\ err \in { "Sign", "FetchWork", "Submit" } =>
              /\ info.Frontier = built[Len(built)].Hash
              /\ info.Balance = built[Len(built)].Balance
              /\ info.Frontier # ledger.frontier
              /\ stdout = << >>

\* Sign failed on the open block: info is already the account after the
\* block, the node still has no block of the account.
C16_Witness ==
    /\ arg0 = "b"
    /\ err = "Sign"
    /\ Len(built) = 1
    /\ built[1].SubType = "open"
    /\ info.Frontier = built[1].Hash
    /\ ledger.frontier = ZeroHash
    /\ ~ledger.opened


\* ------------------------------------------------------------------------
\* Transfers that arrive while the balance command runs
\* ------------------------------------------------------------------------
MaxArrivals == 1

ArrivalHashes == 51..(50 + MaxArrivals)

\* Hashes of transfers the node knows: still pending or claimed by a block.
KnownHashes ==
    { ledger.pending[i].Hash : i \in 1..Len(ledger.pending) }
    \cup { ledger.chain[i].Link : i \in 1..Len(ledger.chain) }

\* Somebody sends funds to the account while the balance command runs: the
\* node gets one more pending transfer.
arrive ==
    /\ arg0 = "b"
    /\ pc # "exit"
    /\ \E h \in ArrivalHashes :
         /\ h \notin KnownHashes
         /\ \A g \in ArrivalHashes : g < h => g \in KnownHashes
         /\ ledger' = [ledger EXCEPT !.pending =
                          Append(@, [Amount |-> <<1>>, Source |-> 10 + h,
                                     Hash |-> h])]
    /\ UNCHANGED <<cmdLine, privateKey, pc, locals, submitted, built, calls,
                   stdout, stderr, exitCode, err, confirmReads, confirmation>>

NextArrive ==
    \/ Next
    \/ arrive

SpecArrive == Init /\ [][NextArrive]_vars

\* Transfers pending at the node that are not in the snapshot of the run.
NotInSnapshot ==
    { p \in Range(ledger.pending) : p \notin Range(pendings) }

\* C17: a balance run makes the account query once, as its first call, and
\* the pending query once, as its second call; every block is constructed
\* after both and claims the transfer at its position in the snapshot; a
\* transfer that became pending after the snapshot is claimed by no block
\* of the run and is all that is left pending when the drain completes.
C17_QueriesOnceAndSnapshotIsFixed ==
    arg0 = "b" =>
        /\ \A i \in 1..Len(calls) :
              /\ calls[i] = "FetchAccountInfo" <=> i = 1
              /\ calls[i] = "FetchPending" <=> i = 2
        /\ Len(built) <= Len(pendings)
        /\ \A i \in 1..Len(built) : built[i].Link = pendings[i].Hash
        /\ idx >= 1 =>
              \A p \in NotInSnapshot :
                  /\ p.Hash \in ArrivalHashes
                  /\ \A i \in 1..Len(built) : built[i].Link # p.Hash
        /\ (BalanceCompleted /\ idx >= 1) =>
              /\ ClaimsInOrder(Len(pendings))
              /\ Range(ledger.pending) = NotInSnapshot

\* A drain of two transfers has completed while a third arrived after the
\* snapshot and is still pending.
C17_Witness ==
    /\ BalanceCompleted
    /\ Len(pendings) = 2
    /\ Len(submitted) = 2
    /\ Len(ledger.pending) = 1
    /\ ledger.pending[1].Hash \in ArrivalHashes
    /\ Len(calls) = 10


StartTexts ==
    { "Creating receive block", "Creating change block",
      "Creating send block" }

\* The start texts and the "done" texts of the diagnostic stream, in order.
Narration ==
    SelectSeq(stderr, LAMBDA l : l.txt \in StartTexts \cup { "done" })

\* C18: on the diagnostic stream start texts and "done" alternate, beginning
\* with a start text: a "done" is written only for a block whose start text
\* was written before.  A start text is written before its block is
\* constructed, so there are as many start texts as constructions begun;
\* "done" is written exactly when Submit succeeds, so there are as many
\* "done" as submitted blocks.  In a drain the k-th start text names the
\* amount and the source of the k-th transfer of the snapshot.
C18_NarrationBracketsEveryBlock ==
    /\ \A i \in 1..Len(Narration) :
          Narration[i].txt = "done" <=> i % 2 = 0
    /\ Cardinality({ i \in 1..Len(stderr) : stderr[i].txt = "done" })
          = Len(submitted)
    /\ Cardinality({ i \in 1..Len(stderr) : stderr[i].txt \in StartTexts })
          = Cardinality(BuildCalls)
            + (IF arg0 = "b" /\ pc = "build" THEN 1 ELSE 0)
    /\ Len(Narration) \in { 2 * Len(submitted), 2 * Len(submitted) + 1 }
    /\ arg0 = "b" =>
          \A k \in 1..Len(Narration) :
              k % 2 = 1 => Narration[k] = ReceiveText(pendings[(k + 1) \div 2])
    /\ arg0 = "r" =>
          \A k \in 1..Len(Narration) :
              k % 2 = 1 => Narration[k].txt = "Creating change block"
    /\ arg0 = "s" =>
          \A k \in 1..Len(Narration) :
              k % 2 = 1 => Narration[k].txt = "Creating send block"

\* A drain has written three start texts and two "done": its third block
\* failed.
C18_Witness ==
    /\ arg0 = "b"
    /\ pc = "exit"
    /\ err = "FetchWork"
    /\ Len(Narration) = 5
    /\ Len(submitted) = 2
    /\ Narration[3].source = pendings[2].Source


\* C19: the balance command writes at most one line to the primary output
\* stream, the balance, and only as its last step after a block was
\* submitted for every transfer of the snapshot; a run that ends with an
\* error (also on an amount that does not parse) has written nothing
\* there, while the blocks it submitted before are applied at the node.
C19_BalancePrintedOnceAfterFullDrain ==
    (arg0 = "b" /\ ~vFlag) =>
        /\ Len(stdout) <= 1
        /\ stdout # << >> =>
              /\ stdout[1].txt = "balance"
              /\ pc = "exit"
              /\ exitCode = 0
              /\ AllDrained
        /\ (pc = "exit" /\ exitCode = 0) => Len(stdout) = 1
        /\ (pc = "exit" /\ exitCode # 0) =>
              /\ stdout = << >>
              /\ ledger.chain = submitted
              /\ Len(submitted) >= 1 =>
                    ledger.frontier = submitted[Len(submitted)].Hash

\* A drain was aborted at its second transfer, whose amount does not
\* parse, after the first was applied.
C19_Witness ==
    /\ arg0 = "b"
    /\ pc = "exit"
    /\ err = "parse"
    /\ idx = 2
    /\ Len(submitted) = 1
    /\ ledger.chain = submitted
    /\ stdout = << >>


\* ------------------------------------------------------------------------
\* Termination
\* ------------------------------------------------------------------------
\* Every call returns: whenever the program can take a step, it eventually
\* takes one.
SpecFair == Init /\ [][Next]_vars /\ WF_vars(Next)

SubmitCalls == { i \in 1..Len(calls) : calls[i] = "Submit" }

\* The numbers of iterations and of Submit calls stay within the size of the
\* snapshot in a drain, and within one block in the other commands.
WithinBounds ==
    /\ arg0 = "b" =>
          /\ idx <= Len(pendings) + 1
          /\ Cardinality(BuildCalls) <= Len(pendings)
          /\ Cardinality(SubmitCalls) <= Len(pendings)
          /\ Cardinality({ i \in 1..Len(stderr) :
                             stderr[i].txt \in StartTexts }) <= Len(pendings)
    /\ arg0 \in { "r", "s" } =>
          /\ Cardinality(BuildCalls) <= 1
          /\ Cardinality(SubmitCalls) <= 1
    /\ arg0 \notin { "b", "r", "s" } => calls = << >>

\* C20: when every call returns, every command ends, and until then a
\* drain has begun at most N iterations and made at most N Submit calls for
\* a snapshot of N transfers, and the representative and send commands
\* have made at most one Submit call.
C20_EveryCommandTerminates ==
    /\ []WithinBounds
    /\ <>(pc = "exit")

\* A drain of three transfers has ended after three iterations.
C20_Witness ==
    /\ arg0 = "b"
    /\ pc = "exit"
    /\ exitCode = 0
    /\ Len(pendings) = 3
    /\ Cardinality(SubmitCalls) = 3
    /\ idx = 4

====
